---- MODULE Spec2Model ----
(***************************************************************************)
(* Model of the session-tracker REST API (server file, Express + SQLite):  *)
(* register / login, the bearer-token gate, and the owner-scoped CRUD      *)
(* handlers over the tasks table.                                          *)
(*                                                                         *)
(* Strings are sequences of atoms.  The atom " " is one whitespace         *)
(* character; every other atom is a whitespace-free, non-empty piece of    *)
(* text.  Titles, e-mails and passwords are written one character per      *)
(* atom, so Len is the JavaScript .length; enumeration words are written   *)
(* as one atom each.                                                       *)
(***************************************************************************)
EXTENDS Integers, Sequences, FiniteSets, TLC

VARIABLES
    users,      \* the users table, in rowid order (rows are never deleted)
    tasks,      \* the tasks table: rowid -> row
    taskSeq,    \* the AUTOINCREMENT counter of the tasks table
    now,        \* the clock, in hours
    issued,     \* the tokens signed by this server so far
    pc,         \* "idle", or "answered" while the last exchange is remembered
    req,        \* the request of the last exchange
    resp,       \* the response of the last exchange
    repeat,     \* the last request was the one before it, sent again
    creator,    \* history: task id -> the user it was created for
    created,    \* history: task id -> its 201 body, until a PUT or DELETE reaches it
    regd        \* history: the credentials of every successful register

vars == <<users, tasks, taskSeq, now, issued, pc, req, resp, repeat,
          creator, created, regd>>

store == <<users, tasks, taskSeq>>

-----------------------------------------------------------------------------
(* Bounds *)

MaxUsers == 2
MaxTasks == 2
MaxGateTasks == 1
MaxFieldTasks == 1
MaxTime == 2
MaxTokens == 3

(* Program constants *)

TTL == 2
JWT_SECRET == "dev-fallback"
MinPassword == 4
MinTitle == 2

-----------------------------------------------------------------------------
(* JavaScript values carried by JSON bodies.  v is the atom sequence of    *)
(* String(value); t is the result of typeof (with "null" told apart).      *)

Undef == [t |-> "undefined", v |-> <<>>]
Null == [t |-> "null", v |-> <<>>]
Str(s) == [t |-> "string", v |-> s]
Bool(b) == [t |-> "boolean", v |-> IF b THEN <<"true">> ELSE <<"false">>]

IsBool(x) == x.t = "boolean"
IsStr(x) == x.t = "string"
BoolOf(x) == x.v = <<"true">>

\* JavaScript truthiness of a body value
Truthy(x) ==
    CASE x.t = "undefined" -> FALSE
      [] x.t = "null" -> FALSE
      [] x.t = "string" -> x.v # <<>>
      [] x.t = "boolean" -> BoolOf(x)
      [] OTHER -> TRUE

\* String(x || dflt)
StringOr(x, dflt) == IF Truthy(x) THEN x.v ELSE dflt

RECURSIVE TrimStart(_)
TrimStart(s) == IF s # <<>> /\ Head(s) = " " THEN TrimStart(Tail(s)) ELSE s

RECURSIVE TrimEnd(_)
TrimEnd(s) ==
    IF s # <<>> /\ s[Len(s)] = " " THEN TrimEnd(SubSeq(s, 1, Len(s) - 1)) ELSE s

\* String.prototype.trim
Trim(s) == TrimEnd(TrimStart(s))

LowerChar(c) ==
    CASE c = "A" -> "a"
      [] c = "B" -> "b"
      [] c = "X" -> "x"
      [] OTHER -> c

\* String.prototype.toLowerCase
ToLowerCase(s) == [i \in 1..Len(s) |-> LowerChar(s[i])]

\* String.prototype.includes, for a one-character needle
Includes(s, c) == \E i \in 1..Len(s) : s[i] = c

-----------------------------------------------------------------------------
(* Tokens and the Authorization header.  A header is the list of pieces    *)
(* obtained by splitting the header text at single spaces; a piece is a    *)
(* plain word or a JSON web token.                                         *)

Word(w) == [k |-> "word", w |-> w, id |-> 0, email |-> <<>>, iat |-> 0, exp |-> 0, key |-> ""]
Jwt(id, email, iat, exp, key) ==
    [k |-> "jwt", w |-> "", id |-> id, email |-> email, iat |-> iat, exp |-> exp, key |-> key]

NoToken == Word("")
NoHeader == <<>>
Nobody == [id |-> 0, email |-> <<>>]

\* faulty variant: a token signed without its lifetime
createTokenNoTtl(user, t) == Jwt(user.id, user.email, t, t, JWT_SECRET)

\* jwt.sign({id, email}, JWT_SECRET, {expiresIn: "2h"})
createToken(user, t) == Jwt(user.id, user.email, t, t + TTL, JWT_SECRET)

\* faulty variant: verification that ignores the expiry time
VerifyIgnoringExpiry(token, t) == token.k = "jwt" /\ token.key = JWT_SECRET

\* jwt.verify(token, JWT_SECRET): does it return a payload rather than throw
VerifyOk(token, t) == token.k = "jwt" /\ token.key = JWT_SECRET /\ t < token.exp

\* auth?.startsWith("Bearer ")
StartsWithBearer(hdr) == Len(hdr) >= 2 /\ hdr[1] = Word("Bearer")

\* requireAuth: TRUE when next() is called
GateAccepts(hdr, t) == StartsWithBearer(hdr) /\ VerifyOk(hdr[2], t)

\* req.user as left by requireAuth
ReqUser(hdr, t) ==
    IF GateAccepts(hdr, t) THEN [id |-> hdr[2].id, email |-> hdr[2].email] ELSE Nobody

-----------------------------------------------------------------------------
(* Responses *)

Resp(status, error, token, body) ==
    [status |-> status, error |-> error, token |-> token, body |-> body]

RespMissingToken == Resp(401, "Missing token", NoToken, <<>>)
RespInvalidToken == Resp(401, "Invalid or expired token", NoToken, <<>>)

\* the response requireAuth sends when it does not call next()
GateResponse(hdr) == IF StartsWithBearer(hdr) THEN RespInvalidToken ELSE RespMissingToken

NoBody == [title |-> Undef, completed |-> Undef, priority |-> Undef,
           status |-> Undef, dueDate |-> Undef]

\* the :id path parameter: a decimal numeral or some other text
IdParam(n) == [text |-> "numeral", n |-> n]
NotANumeral == [text |-> "abc", n |-> 0]
NoParam == [text |-> "", n |-> 0]

\* NaN, which as a bound SQL parameter equals no rowid
NaN == -1

\* Number(req.params.id)
NumberOf(p) == IF p.text = "numeral" THEN p.n ELSE NaN

Req(op, hdr, user, email, password, id, body) ==
    [op |-> op, hdr |-> hdr, user |-> user, email |-> email, password |-> password,
     id |-> id, body |-> body]

-----------------------------------------------------------------------------
(* Credential store *)

\* bcrypt.hashSync(password, 10): a one-way hash.  Nothing but compareSync
\* reads a hash, so the random salt inside it is left out.
HashSync(password) == [of |-> password]

\* bcrypt.compareSync(password, hash)
CompareSync(password, hash) == hash.of = password

\* faulty variant: a lookup that finds no row
stmtFindNoUser(email) == {}

\* stmtFindUserByEmail.get(email): the set of matching row ids
stmtFindUserByEmail(email) == {i \in 1..Len(users) : users[i].email = email}

NoReq == Req("none", NoHeader, Nobody, Undef, Undef, NoParam, NoBody)
NoResp == Resp(0, "", NoToken, <<>>)

Init ==
    /\ users = <<>>
    /\ tasks = <<>>
    /\ taskSeq = 0
    /\ now = 0
    /\ issued = {}
    /\ pc = "idle"
    /\ req = NoReq
    /\ resp = NoResp
    /\ creator = <<>>
    /\ created = <<>>
    /\ regd = {}
    /\ repeat = FALSE

\* a handler ran for request r and answered s
Answer(r, s) ==
    /\ req' = r
    /\ resp' = s
    /\ pc' = "answered"
    /\ repeat' = (pc = "answered")

\* POST /api/auth/register
Register(rawEmail, rawPassword) ==
    LET email == ToLowerCase(Trim(StringOr(rawEmail, <<>>)))
        password == StringOr(rawPassword, <<>>)
        r == Req("register", NoHeader, Nobody, rawEmail, rawPassword, NoParam, NoBody)
        id == Len(users) + 1
        token == createToken([id |-> id, email |-> email], now)
    IN  IF ~Includes(email, "@")
        THEN /\ Answer(r, Resp(400, "Enter a valid email.", NoToken, <<>>))
             /\ UNCHANGED <<store, now, issued, creator, created, regd>>
        ELSE IF Len(password) < MinPassword
        THEN /\ Answer(r, Resp(400, "Password must be at least 4 characters.", NoToken, <<>>))
             /\ UNCHANGED <<store, now, issued, creator, created, regd>>
        ELSE IF stmtFindUserByEmail(email) # {}
        THEN /\ Answer(r, Resp(409, "Email already registered.", NoToken, <<>>))
             /\ UNCHANGED <<store, now, issued, creator, created, regd>>
        ELSE /\ users' = Append(users, [email |-> email,
                                        password_hash |-> HashSync(password)])
             /\ issued' = issued \cup {token}
             /\ regd' = regd \cup {[email |-> rawEmail, password |-> rawPassword, id |-> id]}
             /\ Answer(r, Resp(201, "", token, <<>>))
             /\ UNCHANGED <<tasks, taskSeq, now, creator, created>>

\* POST /api/auth/login
Login(rawEmail, rawPassword) ==
    LET email == ToLowerCase(Trim(StringOr(rawEmail, <<>>)))
        password == StringOr(rawPassword, <<>>)
        r == Req("login", NoHeader, Nobody, rawEmail, rawPassword, NoParam, NoBody)
        found == stmtFindUserByEmail(email)
        id == CHOOSE i \in found : TRUE
        token == createToken([id |-> id, email |-> users[id].email], now)
    IN  IF found = {}
        THEN /\ Answer(r, Resp(401, "Invalid credentials.", NoToken, <<>>))
             /\ UNCHANGED <<store, now, issued, creator, created, regd>>
        ELSE IF ~CompareSync(password, users[id].password_hash)
        THEN /\ Answer(r, Resp(401, "Invalid credentials.", NoToken, <<>>))
             /\ UNCHANGED <<store, now, issued, creator, created, regd>>
        ELSE /\ issued' = issued \cup {token}
             /\ Answer(r, Resp(200, "", token, <<>>))
             /\ UNCHANGED <<store, now, creator, created, regd>>

-----------------------------------------------------------------------------
(* Task store: owner-scoped prepared statements *)

\* faulty variant: a priority set that lets one more word through
allowedPrioritiesLax == {<<"pt">>, <<"strength">>, <<"cardio">>, <<"group">>, <<"bogus">>}

allowedPriorities == {<<"pt">>, <<"strength">>, <<"cardio">>, <<"group">>}
allowedStatuses == {<<"scheduled">>, <<"completed">>, <<"canceled">>, <<"no_show">>}

\* faulty variant: the row read without the alias due_date AS dueDate
TaskJsonNoAlias(id, row) ==
    [id |-> id, title |-> row.title, completed |-> (row.completed # 0),
     priority |-> row.priority, status |-> row.status, dueDate |-> Undef]

\* one row of stmtGetAllTasksForUser mapped by the GET handler
TaskJson(id, row) ==
    [id |-> id, title |-> row.title, completed |-> (row.completed # 0),
     priority |-> row.priority, status |-> row.status, dueDate |-> row.due_date]

\* SELECT ... FROM tasks WHERE owner_id = ? ORDER BY id DESC, over ids n..1
RECURSIVE RowsDesc(_, _, _)
RowsDesc(t, owner, n) ==
    IF n = 0 THEN <<>>
    ELSE IF n \in DOMAIN t /\ t[n].owner_id = owner
         THEN <<TaskJson(n, t[n])>> \o RowsDesc(t, owner, n - 1)
         ELSE RowsDesc(t, owner, n - 1)

stmtGetAllTasksForUser(owner) == RowsDesc(tasks, owner, taskSeq)

\* faulty variant: the lookup without its owner_id condition
stmtFindTaskAnyOwner(t, id, owner) == id \in DOMAIN t

\* SELECT id FROM tasks WHERE id = ? AND owner_id = ?
stmtFindTaskForUser(t, id, owner) == id \in DOMAIN t /\ t[id].owner_id = owner

\* faulty variant: the delete without its owner_id condition
stmtDeleteTaskAnyOwner(t, id, owner) == [i \in DOMAIN t \ {id} |-> t[i]]

\* DELETE FROM tasks WHERE id = ? AND owner_id = ?
stmtDeleteTask(t, id, owner) ==
    [i \in {j \in DOMAIN t : ~(j = id /\ t[j].owner_id = owner)} |-> t[i]]

\* faulty variant: the title update without its id condition
stmtUpdateTitleAllRows(t, val, id, owner) ==
    [i \in DOMAIN t |-> IF t[i].owner_id = owner THEN [t[i] EXCEPT !.title = val] ELSE t[i]]

\* UPDATE tasks SET <col> = ? WHERE id = ? AND owner_id = ?
stmtUpdateTitle(t, val, id, owner) ==
    [i \in DOMAIN t |-> IF i = id /\ t[i].owner_id = owner
                        THEN [t[i] EXCEPT !.title = val] ELSE t[i]]

\* faulty variant: SET completed = NOT completed
stmtToggleCompleted(t, val, id, owner) ==
    [i \in DOMAIN t |-> IF i = id /\ t[i].owner_id = owner
                        THEN [t[i] EXCEPT !.completed = 1 - @] ELSE t[i]]

stmtUpdateCompleted(t, val, id, owner) ==
    [i \in DOMAIN t |-> IF i = id /\ t[i].owner_id = owner
                        THEN [t[i] EXCEPT !.completed = val] ELSE t[i]]

stmtUpdatePriority(t, val, id, owner) ==
    [i \in DOMAIN t |-> IF i = id /\ t[i].owner_id = owner
                        THEN [t[i] EXCEPT !.priority = val] ELSE t[i]]

stmtUpdateStatus(t, val, id, owner) ==
    [i \in DOMAIN t |-> IF i = id /\ t[i].owner_id = owner
                        THEN [t[i] EXCEPT !.status = val] ELSE t[i]]

stmtUpdateDueDate(t, val, id, owner) ==
    [i \in DOMAIN t |-> IF i = id /\ t[i].owner_id = owner
                        THEN [t[i] EXCEPT !.due_date = val] ELSE t[i]]

\* faulty variant: a rowid chosen as one more than the largest rowid in the table
NextRowidReused(t, seq) ==
    IF DOMAIN t = {} THEN 1 ELSE 1 + CHOOSE m \in DOMAIN t : \A i \in DOMAIN t : i <= m

\* id INTEGER PRIMARY KEY AUTOINCREMENT: one more than the largest rowid ever used
NextRowid(t, seq) == seq + 1

\* INSERT INTO tasks (...) VALUES (...)
stmtInsertTask(t, id, row) == [i \in DOMAIN t \cup {id} |-> IF i = id THEN row ELSE t[i]]

-----------------------------------------------------------------------------
(* Task routes.  Each is registered behind requireAuth, which either       *)
(* answers 401 itself or hands the request on with req.user set.           *)

\* requireAuth answered: the route handler never ran
Rejected(op, hdr, id, body) ==
    /\ Answer(Req(op, hdr, Nobody, Undef, Undef, id, body), GateResponse(hdr))
    /\ UNCHANGED <<store, now, issued, creator, created, regd>>

\* GET /api/tasks
ListTasks(hdr) ==
    IF ~GateAccepts(hdr, now) THEN Rejected("GET", hdr, NoParam, NoBody)
    ELSE LET user == ReqUser(hdr, now)
         IN  /\ Answer(Req("GET", hdr, user, Undef, Undef, NoParam, NoBody),
                       Resp(200, "", NoToken, stmtGetAllTasksForUser(user.id)))
             /\ UNCHANGED <<store, now, issued, creator, created, regd>>

\* the dueDate the POST handler stores and echoes
CreateDueDate(x) ==
    IF Truthy(x) /\ Trim(x.v) # <<>> THEN Str(Trim(x.v)) ELSE Null

\* faulty variant: completed defaults to false whatever the status
CreateCompletedFalse(x, status) == IF IsBool(x) THEN BoolOf(x) ELSE FALSE

\* the completed flag the POST handler stores and echoes
CreateCompleted(x, status) == IF IsBool(x) THEN BoolOf(x) ELSE status = <<"completed">>

\* POST /api/tasks
CreateTask(hdr, body) ==
    IF ~GateAccepts(hdr, now) THEN Rejected("POST", hdr, NoParam, body)
    ELSE LET user == ReqUser(hdr, now)
             r == Req("POST", hdr, user, Undef, Undef, NoParam, body)
             title == Trim(StringOr(body.title, <<>>))
             priority == Trim(StringOr(body.priority, <<"pt">>))
             status == Trim(StringOr(body.status, <<"scheduled">>))
             dueDate == CreateDueDate(body.dueDate)
             completed == CreateCompleted(body.completed, status)
             id == NextRowid(tasks, taskSeq)
             row == [owner_id |-> user.id, title |-> title,
                     completed |-> IF completed THEN 1 ELSE 0,
                     priority |-> priority, status |-> status, due_date |-> dueDate]
             json == [id |-> id, title |-> title, completed |-> completed,
                      priority |-> priority, status |-> status, dueDate |-> dueDate]
         IN  IF Len(title) < MinTitle
             THEN /\ Answer(r, Resp(400, "Title must be at least 2 characters.", NoToken, <<>>))
                  /\ UNCHANGED <<store, now, issued, creator, created, regd>>
             ELSE IF priority \notin allowedPriorities
             THEN /\ Answer(r, Resp(400, "Invalid priority value.", NoToken, <<>>))
                  /\ UNCHANGED <<store, now, issued, creator, created, regd>>
             ELSE IF status \notin allowedStatuses
             THEN /\ Answer(r, Resp(400, "Invalid status value.", NoToken, <<>>))
                  /\ UNCHANGED <<store, now, issued, creator, created, regd>>
             ELSE /\ tasks' = stmtInsertTask(tasks, id, row)
                  /\ taskSeq' = id
                  /\ creator' = Append(creator, user.id)
                  /\ created' = [i \in DOMAIN created \cup {id} |->
                                    IF i = id THEN json ELSE created[i]]
                  /\ Answer(r, Resp(201, "", NoToken, <<json>>))
                  /\ UNCHANGED <<users, now, issued, regd>>

(* PUT /api/tasks/:id writes field by field.  An update in progress is     *)
(* [t |-> the tasks table so far, halt |-> the 400 response or NoHalt].    *)

NoHalt == Resp(0, "", NoToken, <<>>)
Going(t) == [t |-> t, halt |-> NoHalt]
Halted(t, error) == [t |-> t, halt |-> Resp(400, error, NoToken, <<>>)]

\* lines 254-258
PutTitle(u, body, id, owner) ==
    IF u.halt # NoHalt \/ ~IsStr(body.title) THEN u
    ELSE IF Len(Trim(body.title.v)) < MinTitle
         THEN Halted(u.t, "Title must be at least 2 characters.")
         ELSE Going(stmtUpdateTitle(u.t, Trim(body.title.v), id, owner))

\* lines 260-261
PutCompleted(u, body, id, owner) ==
    IF u.halt # NoHalt \/ ~IsBool(body.completed) THEN u
    ELSE Going(stmtUpdateCompleted(u.t, IF BoolOf(body.completed) THEN 1 ELSE 0, id, owner))

\* lines 262-264: the local variable status after the completed block
EffectiveStatus(body) ==
    IF IsBool(body.completed) /\ ~IsStr(body.status)
    THEN Str(IF BoolOf(body.completed) THEN <<"completed">> ELSE <<"scheduled">>)
    ELSE body.status

\* faulty variant: the priority written without the membership test
PutPriorityUnchecked(u, body, id, owner) ==
    IF u.halt # NoHalt \/ ~IsStr(body.priority) THEN u
    ELSE Going(stmtUpdatePriority(u.t, Trim(body.priority.v), id, owner))

\* lines 267-273
PutPriority(u, body, id, owner) ==
    IF u.halt # NoHalt \/ ~IsStr(body.priority) THEN u
    ELSE IF Trim(body.priority.v) \notin allowedPriorities
         THEN Halted(u.t, "Invalid priority value.")
         ELSE Going(stmtUpdatePriority(u.t, Trim(body.priority.v), id, owner))

\* faulty variant: the status is written and completed is left alone
PutNoDerivedCompleted(t, body, normalizedStatus, id, owner) == t

\* faulty variant: completed is derived from the status even when it was supplied
PutAlwaysDerivedCompleted(t, body, normalizedStatus, id, owner) ==
    stmtUpdateCompleted(t, IF normalizedStatus = <<"completed">> THEN 1 ELSE 0, id, owner)

\* lines 281-283: the completed flag derived from the status just written
PutDerivedCompleted(t, body, normalizedStatus, id, owner) ==
    IF ~IsBool(body.completed)
    THEN stmtUpdateCompleted(t, IF normalizedStatus = <<"completed">> THEN 1 ELSE 0, id, owner)
    ELSE t

\* faulty variant: the status written before it is validated
PutStatusWriteFirst(u, body, id, owner) ==
    LET status == EffectiveStatus(body)
    IN  IF u.halt # NoHalt \/ ~IsStr(status) THEN u
        ELSE IF Trim(status.v) \notin allowedStatuses
             THEN Halted(stmtUpdateStatus(u.t, Trim(status.v), id, owner),
                         "Invalid status value.")
             ELSE Going(PutDerivedCompleted(stmtUpdateStatus(u.t, Trim(status.v), id, owner),
                                            body, Trim(status.v), id, owner))

\* lines 275-284
PutStatus(u, body, id, owner) ==
    LET status == EffectiveStatus(body)
    IN  IF u.halt # NoHalt \/ ~IsStr(status) THEN u
        ELSE IF Trim(status.v) \notin allowedStatuses
             THEN Halted(u.t, "Invalid status value.")
             ELSE Going(PutDerivedCompleted(stmtUpdateStatus(u.t, Trim(status.v), id, owner),
                                            body, Trim(status.v), id, owner))

\* lines 286-290
PutDueDate(u, body, id, owner) ==
    IF u.halt # NoHalt \/ body.dueDate = Undef THEN u
    ELSE Going(stmtUpdateDueDate(u.t,
                   IF body.dueDate = Null \/ Trim(body.dueDate.v) = <<>>
                   THEN Null ELSE Str(Trim(body.dueDate.v)),
                   id, owner))

\* faulty variant: an update that is rolled back when a field is rejected
PutFieldsAtomic(t, body, id, owner) ==
    LET u == PutDueDate(PutStatus(PutPriority(PutCompleted(PutTitle(Going(t),
                 body, id, owner), body, id, owner), body, id, owner), body, id, owner),
                 body, id, owner)
    IN  IF u.halt # NoHalt THEN [t |-> t, halt |-> u.halt] ELSE u

\* lines 254-290 in order
PutFields(t, body, id, owner) ==
    PutDueDate(PutStatus(PutPriority(PutCompleted(PutTitle(Going(t),
        body, id, owner), body, id, owner), body, id, owner), body, id, owner),
        body, id, owner)

\* PUT /api/tasks/:id
UpdateTask(hdr, param, body) ==
    IF ~GateAccepts(hdr, now) THEN Rejected("PUT", hdr, param, body)
    ELSE LET user == ReqUser(hdr, now)
             r == Req("PUT", hdr, user, Undef, Undef, param, body)
             taskId == NumberOf(param)
             u == PutFields(tasks, body, taskId, user.id)
         IN  IF ~stmtFindTaskForUser(tasks, taskId, user.id)
             THEN /\ Answer(r, Resp(404, "Task not found.", NoToken, <<>>))
                  /\ UNCHANGED <<store, now, issued, creator, created, regd>>
             ELSE /\ tasks' = u.t
                  /\ created' = [i \in DOMAIN created \ {taskId} |-> created[i]]
                  /\ Answer(r, IF u.halt # NoHalt THEN u.halt
                               ELSE Resp(200, "", NoToken, <<>>))
                  /\ UNCHANGED <<users, taskSeq, now, issued, creator, regd>>

\* DELETE /api/tasks/:id
DeleteTask(hdr, param) ==
    IF ~GateAccepts(hdr, now) THEN Rejected("DELETE", hdr, param, NoBody)
    ELSE LET user == ReqUser(hdr, now)
             r == Req("DELETE", hdr, user, Undef, Undef, param, NoBody)
             taskId == NumberOf(param)
             after == stmtDeleteTask(tasks, taskId, user.id)
             changes == Cardinality(DOMAIN tasks) - Cardinality(DOMAIN after)
         IN  IF changes = 0
             THEN /\ Answer(r, Resp(404, "Task not found.", NoToken, <<>>))
                  /\ UNCHANGED <<store, now, issued, creator, created, regd>>
             ELSE /\ tasks' = after
                  /\ created' = [i \in DOMAIN created \ {taskId} |-> created[i]]
                  /\ Answer(r, Resp(200, "", NoToken, <<>>))
                  /\ UNCHANGED <<users, taskSeq, now, issued, creator, regd>>

-----------------------------------------------------------------------------
(* The environment *)

\* an hour passes
Tick ==
    /\ now < MaxTime
    /\ now' = now + 1
    /\ UNCHANGED <<store, issued, pc, req, resp, repeat, creator, created, regd>>

\* the client has its answer; the exchange is forgotten
Deliver ==
    /\ pc = "answered"
    /\ pc' = "idle"
    /\ req' = NoReq
    /\ resp' = NoResp
    /\ repeat' = FALSE
    /\ UNCHANGED <<store, now, issued, creator, created, regd>>

\* the client sends the request it has just been answered once more
Resend(userCap, taskCap, tokenCap) ==
    \/ /\ pc = "answered" /\ req.op = "register"
       /\ Register(req.email, req.password)
       /\ Len(users') <= userCap /\ Cardinality(issued') <= tokenCap
    \/ /\ pc = "answered" /\ req.op = "login"
       /\ Login(req.email, req.password)
       /\ Cardinality(issued') <= tokenCap
    \/ pc = "answered" /\ req.op = "GET" /\ ListTasks(req.hdr)
    \/ /\ pc = "answered" /\ req.op = "POST"
       /\ CreateTask(req.hdr, req.body)
       /\ taskSeq' <= taskCap
    \/ pc = "answered" /\ req.op = "PUT" /\ UpdateTask(req.hdr, req.id, req.body)
    \/ pc = "answered" /\ req.op = "DELETE" /\ DeleteTask(req.hdr, req.id)

-----------------------------------------------------------------------------
(* Inputs *)

EmailA == <<"a", "@", "x">>
EmailAPadded == <<" ", "A", "@", "X", " ">>
EmailB == <<"b", "@", "x">>
EmailNoAt == <<"a", "x">>
PassShort == <<"p", "w", "d">>
PassOne == <<"p", "a", "s", "s">>
PassTwo == <<"w", "o", "r", "d">>

TitleAb == <<" ", "a", "b", " ">>
TitleCd == <<"c", "d">>
TitleA == <<" ", "a">>

\* a token signed with another key
Forged(token) == [token EXCEPT !.key = "attacker"]

\* the Authorization headers a client holding the tokens in iss can send
Headers(iss) ==
    {NoHeader, <<Word("Bearer"), Word("garbage")>>}
    \cup {<<Word("Bearer"), token>> : token \in iss}
    \cup {<<Word("Basic"), token>> : token \in iss}
    \cup {<<Word("Bearer"), Forged(token)>> : token \in iss}

\* the headers of a client that sends its token as issued, or none
PlainHeaders(iss) == {NoHeader} \cup {<<Word("Bearer"), token>> : token \in iss}

Body(title, completed, priority, status, dueDate) ==
    [title |-> title, completed |-> completed, priority |-> priority,
     status |-> status, dueDate |-> dueDate]

\* a new request arrives and is handled
Arrive(emails, passwords, hdrs, createBodies, putBodies, params, userCap, taskCap, tokenCap) ==
    \/ /\ pc = "idle"
       /\ \E e \in emails, p \in passwords : Register(e, p)
       /\ Len(users') <= userCap /\ Cardinality(issued') <= tokenCap
    \/ /\ pc = "idle"
       /\ \E e \in emails, p \in passwords : Login(e, p)
       /\ Cardinality(issued') <= tokenCap
    \/ pc = "idle" /\ \E h \in hdrs : ListTasks(h)
    \/ /\ pc = "idle"
       /\ \E h \in hdrs, b \in createBodies : CreateTask(h, b)
       /\ taskSeq' <= taskCap
    \/ pc = "idle" /\ \E h \in hdrs, i \in params, b \in putBodies : UpdateTask(h, i, b)
    \/ pc = "idle" /\ \E h \in hdrs, i \in params : DeleteTask(h, i)

-----------------------------------------------------------------------------
(* Spec: two accounts, every kind of Authorization header, passing time,   *)
(* and one task.                                                           *)

Emails == {Str(EmailA), Str(EmailAPadded), Str(EmailB), Str(EmailNoAt)}
Passwords == {Str(PassShort), Str(PassOne), Str(PassTwo)}
GateParams == {IdParam(n) : n \in 1..MaxGateTasks} \cup {NotANumeral}

CreateBodies == {Body(Str(TitleAb), Undef, Undef, Undef, Undef),
                 Body(Str(TitleA), Undef, Undef, Undef, Undef)}

PutBodies == {Body(Undef, Undef, Undef, Str(<<"completed">>), Undef),
              Body(Str(TitleCd), Bool(FALSE), Undef, Undef, Str(<<"d1">>))}

Next ==
    \/ Arrive(Emails, Passwords, Headers(issued), CreateBodies, PutBodies, GateParams,
              MaxUsers, MaxGateTasks, MaxTokens)
    \/ Resend(MaxUsers, MaxGateTasks, MaxTokens)
    \/ Deliver
    \/ Tick

Spec == Init /\ [][Next]_vars

-----------------------------------------------------------------------------
(* SpecOwners: two accounts with their tokens as issued, and several tasks *)
(* created, updated and deleted by either.                                 *)

OwnerEmails == {Str(EmailA), Str(EmailB)}
OwnerPasswords == {Str(PassOne)}
IdParams == {IdParam(n) : n \in 1..MaxTasks} \cup {NotANumeral}

NextOwners ==
    \/ Arrive(OwnerEmails, OwnerPasswords, PlainHeaders(issued),
              CreateBodies, PutBodies, IdParams, MaxUsers, MaxTasks, MaxTokens)
    \/ Resend(MaxUsers, MaxTasks, MaxTokens)
    \/ Deliver

SpecOwners == Init /\ [][NextOwners]_vars

-----------------------------------------------------------------------------
(* SpecFrame: the two accounts and several tasks of SpecOwners, with       *)
(* updates that give no field, one field, or a field that is rejected      *)
(* after another was written.                                              *)

\* a create that gives every field, padded, next to the two of Spec
FrameCreateBodies ==
    CreateBodies \cup
    {Body(Str(TitleAb), Bool(TRUE), Str(<<" ", "cardio">>), Str(<<"canceled", " ">>),
          Str(<<" ", "d1">>))}

\* the empty update, updates of one field, and one that is rejected half way
FramePutBodies ==
    PutBodies \cup
    {NoBody,
     Body(Undef, Bool(TRUE), Undef, Undef, Undef),
     Body(Undef, Undef, Str(<<"group">>), Undef, Null),
     Body(Str(TitleCd), Undef, Str(<<"bogus">>), Undef, Undef)}

NextFrame ==
    \/ Arrive(OwnerEmails, OwnerPasswords, PlainHeaders(issued),
              FrameCreateBodies, FramePutBodies, IdParams, MaxUsers, MaxTasks, MaxTokens)
    \/ Resend(MaxUsers, MaxTasks, MaxTokens)
    \/ Deliver

SpecFrame == Init /\ [][NextFrame]_vars

-----------------------------------------------------------------------------
(* SpecFields: one account, and request bodies that combine every way of   *)
(* giving or omitting each task field.                                     *)

FieldEmails == {Str(EmailA)}
FieldPasswords == {Str(PassOne)}
FieldParams == {IdParam(n) : n \in 1..MaxFieldTasks} \cup {NotANumeral}

CreateTitles == {Undef, Str(TitleAb), Str(TitleA)}
PutTitles == {Undef, Str(TitleCd), Str(TitleA)}
Completeds == {Undef, Bool(TRUE), Bool(FALSE)}
Priorities == {Undef, Str(<<" ", "cardio">>), Str(<<"bogus">>)}
Statuses == {Undef, Str(<<"completed">>), Str(<<"canceled", " ">>), Str(<<"bogus">>)}
DueDates == {Undef, Null, Str(<<" ", "d1">>)}

FieldCreateBodies ==
    {Body(t, c, p, s, d) : t \in CreateTitles, c \in Completeds, p \in Priorities,
                           s \in Statuses, d \in DueDates}

FieldPutBodies ==
    {Body(t, c, p, s, d) : t \in PutTitles, c \in Completeds, p \in Priorities,
                           s \in Statuses, d \in DueDates}

NextFields ==
    \/ Arrive(FieldEmails, FieldPasswords, PlainHeaders(issued),
              FieldCreateBodies, FieldPutBodies, FieldParams,
              MaxUsers, MaxFieldTasks, MaxTokens)
    \/ Resend(MaxUsers, MaxFieldTasks, MaxTokens)
    \/ Deliver

SpecFields == Init /\ [][NextFields]_vars

-----------------------------------------------------------------------------
(* SpecDerived: one account and several tasks, with request bodies whose   *)
(* completed field is left out or is not a boolean.                        *)

NonBooleans == {Undef, Str(<<"true">>)}
DerivedDueDates == {Undef, Str(<<" ", "d1">>)}

DerivedCreateBodies ==
    {Body(t, c, p, s, d) : t \in CreateTitles, c \in NonBooleans, p \in Priorities,
                           s \in Statuses, d \in DerivedDueDates}

DerivedPutBodies ==
    {Body(t, c, p, s, d) : t \in PutTitles, c \in NonBooleans, p \in Priorities,
                           s \in Statuses, d \in DerivedDueDates}

NextDerived ==
    \/ Arrive(FieldEmails, FieldPasswords, PlainHeaders(issued),
              DerivedCreateBodies, DerivedPutBodies, IdParams,
              MaxUsers, MaxTasks, MaxTokens)
    \/ Resend(MaxUsers, MaxTasks, MaxTokens)
    \/ Deliver

SpecDerived == Init /\ [][NextDerived]_vars

-----------------------------------------------------------------------------
(* Vocabulary of the properties *)

TaskOps == {"GET", "POST", "PUT", "DELETE"}

\* this step is a handler answering a request (not the clock, not Deliver)
HandlerStep == pc' = "answered" /\ now' = now

\* the request just answered came through the gate
Authenticated(r) == r.user # Nobody

\* the task id a PUT or DELETE request names
TargetOf(r) == NumberOf(r.id)

\* e-mail normalisation as the auth routes state it
Normalized(x) == ToLowerCase(Trim(StringOr(x, <<>>)))

StoredEmails == {users[i].email : i \in 1..Len(users)}

Consistent(row) == (row.status = <<"completed">>) <=> (row.completed = 1)

-----------------------------------------------------------------------------
(* C1: owner isolation.  A GET answers only with tasks created for the     *)
(* caller, and a PUT or DELETE by an authenticated caller on an existing   *)
(* task of another owner answers 404 and leaves the tasks table as it was. *)

C1_ListOnlyOwn ==
    (pc = "answered" /\ req.op = "GET" /\ resp.status = 200) =>
        \A k \in 1..Len(resp.body) : creator[resp.body[k].id] = req.user.id

C1_ForeignWrite ==
    (/\ HandlerStep
     /\ req'.op \in {"PUT", "DELETE"}
     /\ Authenticated(req')
     /\ TargetOf(req') \in DOMAIN tasks
     /\ tasks[TargetOf(req')].owner_id # req'.user.id)
    => (resp'.status = 404 /\ tasks' = tasks)

\* C1: no GET ever lists another owner's task, and no PUT or DELETE by
\* another owner is answered anything but 404 or changes the tasks table
C1_OwnerIsolation == []C1_ListOnlyOwn /\ [][C1_ForeignWrite]_vars

\* B's PUT on A's existing task was answered 404
C1_Witness ==
    /\ pc = "answered" /\ req.op = "PUT" /\ Authenticated(req)
    /\ TargetOf(req) \in DOMAIN tasks
    /\ tasks[TargetOf(req)].owner_id # req.user.id
    /\ resp.status = 404

-----------------------------------------------------------------------------
(* C9: deletion.  An authenticated DELETE of an existing task of the       *)
(* caller answers 200 and removes exactly that row; any other DELETE (the  *)
(* id was deleted before, never existed, or is another owner's) answers    *)
(* 404 and changes nothing; and an inserted task never takes an id that    *)
(* was handed out before.                                                  *)

C9_Delete ==
    (HandlerStep /\ req'.op = "DELETE" /\ Authenticated(req')) =>
        IF TargetOf(req') \in DOMAIN tasks /\ creator[TargetOf(req')] = req'.user.id
        THEN /\ resp'.status = 200
             /\ tasks' = [i \in DOMAIN tasks \ {TargetOf(req')} |-> tasks[i]]
        ELSE resp'.status = 404 /\ tasks' = tasks

C9_FreshIds == \A i \in DOMAIN tasks' \ DOMAIN tasks : i \notin DOMAIN creator

\* C9: every DELETE step behaves as C9_Delete says and no id is handed out twice
C9_DeleteNotIdempotent == [][C9_Delete /\ C9_FreshIds]_vars

\* the owner deleted a task, sent the same DELETE again and got 404,
\* while a task created later is still there
C9_Witness ==
    /\ pc = "answered" /\ repeat /\ req.op = "DELETE" /\ resp.status = 404
    /\ TargetOf(req) \in DOMAIN creator
    /\ creator[TargetOf(req)] = req.user.id
    /\ \E i \in DOMAIN tasks : i > TargetOf(req)

-----------------------------------------------------------------------------
(* C5 as stated: a register whose normalised e-mail is already stored      *)
(* answers 409 and inserts nothing, and stored e-mails are pairwise        *)
(* distinct.                                                               *)

C5_Unique == \A i, j \in 1..Len(users) : users[i].email = users[j].email => i = j

C5_Taken == HandlerStep /\ req'.op = "register" /\ Normalized(req'.email) \in StoredEmails

C5_Original ==
    /\ []C5_Unique
    /\ [][C5_Taken => (resp'.status = 409 /\ users' = users)]_vars

(* C5 amended: a register whose normalised e-mail is already stored        *)
(* inserts nothing and answers 409 when its password has at least 4        *)
(* characters, 400 when it is shorter; stored e-mails are pairwise         *)
(* distinct.                                                               *)

C5_EmailUnique ==
    /\ []C5_Unique
    /\ [][C5_Taken =>
            /\ users' = users
            /\ resp'.status = IF Len(StringOr(req'.password, <<>>)) < MinPassword
                              THEN 400 ELSE 409]_vars

\* a second register of the same address, typed differently, answered 409
C5_Witness ==
    /\ pc = "answered" /\ req.op = "register" /\ resp.status = 409
    /\ req.email.v \notin StoredEmails
    /\ Normalized(req.email) \in StoredEmails

-----------------------------------------------------------------------------
(* C6: register then login.  A login with the e-mail and password of an    *)
(* earlier successful register answers 200 with a token that requireAuth   *)
(* accepts and resolves to the id that register created.                   *)

C6_Login ==
    (HandlerStep /\ req'.op = "login") =>
        \A c \in regd :
            (c.email = req'.email /\ c.password = req'.password) =>
                /\ resp'.status = 200
                /\ GateAccepts(<<Word("Bearer"), resp'.token>>, now)
                /\ ReqUser(<<Word("Bearer"), resp'.token>>, now).id = c.id

\* C6: every login with registered credentials yields a token the gate
\* accepts for the registered id
C6_RegisterThenLogin == [][C6_Login]_vars

\* the second account logged in, hours after it registered
C6_Witness ==
    /\ pc = "answered" /\ req.op = "login" /\ resp.status = 200
    /\ \E c \in regd : c.email = req.email /\ c.password = req.password /\ c.id = 2
    /\ resp.token.iat > 0
    /\ Jwt(2, resp.token.email, 0, TTL, JWT_SECRET) \in issued

-----------------------------------------------------------------------------
(* C7: the gate.  A task request whose Authorization header is absent,     *)
(* does not start with "Bearer ", or carries a malformed, wrongly signed   *)
(* or expired token answers 401 with no task data and changes nothing; on  *)
(* a valid token req.user.id is the id in the token, and that id is the    *)
(* owner of whatever the handler lists, inserts, updates or deletes.       *)

C7_Absent(hdr) == hdr = NoHeader
C7_NotBearer(hdr) == Len(hdr) < 2 \/ hdr[1] # Word("Bearer")
C7_Malformed(hdr) == hdr[2].k # "jwt"
C7_WronglySigned(hdr) == hdr[2].key # JWT_SECRET
C7_Expired(hdr, t) == hdr[2].exp <= t

C7_BadHeader(hdr, t) ==
    \/ C7_Absent(hdr)
    \/ C7_NotBearer(hdr)
    \/ C7_Malformed(hdr)
    \/ C7_WronglySigned(hdr)
    \/ C7_Expired(hdr, t)

C7_Gate ==
    (HandlerStep /\ req'.op \in TaskOps) =>
        IF C7_BadHeader(req'.hdr, now)
        THEN /\ resp'.status = 401
             /\ resp'.body = <<>>
             /\ <<users, tasks, taskSeq, creator, created>>' =
                    <<users, tasks, taskSeq, creator, created>>
        ELSE /\ req'.user.id = req'.hdr[2].id
             /\ req'.op = "GET" =>
                    \A k \in 1..Len(resp'.body) : creator[resp'.body[k].id] = req'.hdr[2].id
             /\ \A i \in DOMAIN tasks' \ DOMAIN tasks : tasks'[i].owner_id = req'.hdr[2].id
             /\ \A i \in DOMAIN tasks :
                    (i \notin DOMAIN tasks' \/ tasks'[i] # tasks[i]) =>
                        tasks[i].owner_id = req'.hdr[2].id

\* C7: every task request passes or fails the gate as C7_Gate says
C7_AccessControlGate == [][C7_Gate]_vars

\* a DELETE of the caller's own task, sent with the caller's expired token,
\* was answered 401 and the task is still there
C7_Witness ==
    /\ pc = "answered" /\ req.op = "DELETE" /\ resp.status = 401
    /\ Len(req.hdr) = 2 /\ req.hdr[1] = Word("Bearer")
    /\ req.hdr[2] \in issued
    /\ req.hdr[2].exp <= now
    /\ TargetOf(req) \in DOMAIN tasks
    /\ tasks[TargetOf(req)].owner_id = req.hdr[2].id

-----------------------------------------------------------------------------
(* C2: status/completed sync on update.  After a PUT answered 200 that     *)
(* supplies a string status and no boolean completed, the stored completed *)
(* flag is 1 exactly when that status is "completed"; after a PUT answered *)
(* 200 that supplies a boolean completed and no string status, the stored  *)
(* status is "completed" for true and "scheduled" for false.               *)

C2_StatusCompletedSync ==
    (pc = "answered" /\ req.op = "PUT" /\ resp.status = 200) =>
        LET b == req.body
            row == tasks[TargetOf(req)]
        IN  /\ (IsStr(b.status) /\ ~IsBool(b.completed)) =>
                   row.completed = IF Trim(b.status.v) = <<"completed">> THEN 1 ELSE 0
            /\ (IsBool(b.completed) /\ ~IsStr(b.status)) =>
                   row.status = IF BoolOf(b.completed) THEN <<"completed">>
                                ELSE <<"scheduled">>

\* a PUT of status "completed" alone left completed set
C2_Witness ==
    /\ pc = "answered" /\ req.op = "PUT" /\ resp.status = 200
    /\ req.body.status = Str(<<"completed">>)
    /\ req.body.completed = Undef
    /\ tasks[TargetOf(req)].completed = 1

-----------------------------------------------------------------------------
(* C3: precedence.  After a PUT answered 200 that supplies both a boolean  *)
(* completed and a string status, the stored completed is the supplied     *)
(* boolean and the stored status is the supplied status (trimmed), also    *)
(* when the two disagree.                                                  *)

C3_ExplicitCompletedWins ==
    (/\ pc = "answered" /\ req.op = "PUT" /\ resp.status = 200
     /\ IsBool(req.body.completed) /\ IsStr(req.body.status))
    => /\ tasks[TargetOf(req)].completed = (IF BoolOf(req.body.completed) THEN 1 ELSE 0)
       /\ tasks[TargetOf(req)].status = Trim(req.body.status.v)

\* completed=false was stored next to status "completed"
C3_Witness ==
    /\ pc = "answered" /\ req.op = "PUT" /\ resp.status = 200
    /\ req.body.completed = Bool(FALSE)
    /\ req.body.status = Str(<<"completed">>)
    /\ tasks[TargetOf(req)].completed = 0
    /\ tasks[TargetOf(req)].status = <<"completed">>

-----------------------------------------------------------------------------
(* C4 as stated: every stored task has status "completed" exactly when its *)
(* completed flag is set.                                                  *)

C4_Original == \A i \in DOMAIN tasks : Consistent(tasks[i])

(* C4 amended: a create answered 201, or an update answered 200 that       *)
(* supplies a boolean completed or a string status, leaves its task with   *)
(* status "completed" exactly when completed is set, provided the request  *)
(* supplied no boolean completed or one that agrees with the status it     *)
(* supplied (on create: supplied or defaulted).                            *)

C4_WritesSync(r) ==
    \/ r.op = "POST"
    \/ r.op = "PUT" /\ (IsBool(r.body.completed) \/ IsStr(r.body.status))

C4_RequestStatus(r) ==
    IF r.op = "POST" THEN Trim(StringOr(r.body.status, <<"scheduled">>))
    ELSE Trim(r.body.status.v)

C4_Agrees(r) ==
    \/ ~IsBool(r.body.completed)
    \/ r.op = "PUT" /\ ~IsStr(r.body.status)
    \/ BoolOf(r.body.completed) <=> (C4_RequestStatus(r) = <<"completed">>)

\* C4 amended: a write whose explicit completed does not contradict its status
\* leaves the task in the steady-state relation
C4_SteadyStatePerWrite ==
    (/\ pc = "answered" /\ resp.status \in {200, 201}
     /\ C4_WritesSync(req) /\ C4_Agrees(req))
    => Consistent(tasks[IF req.op = "POST" THEN resp.body[1].id ELSE TargetOf(req)])

\* a create with status "completed" and no completed flag stored completed = 1
C4_Witness ==
    /\ pc = "answered" /\ req.op = "POST" /\ resp.status = 201
    /\ req.body.completed = Undef
    /\ req.body.status = Str(<<"completed">>)
    /\ tasks[resp.body[1].id].completed = 1

-----------------------------------------------------------------------------
(* C8: create/list round trip.  A GET answered 200 contains, for every     *)
(* task created for the caller that no PUT or DELETE has reached since,    *)
(* an entry equal to the body of its 201 response.                         *)

C8_CreateListRoundTrip ==
    (pc = "answered" /\ req.op = "GET" /\ resp.status = 200) =>
        \A i \in DOMAIN created :
            creator[i] = req.user.id =>
                \E k \in 1..Len(resp.body) : resp.body[k] = created[i]

\* a task created with a title to trim, an explicit completed flag and a
\* due date was listed as it was answered
C8_Witness ==
    /\ pc = "answered" /\ req.op = "GET" /\ resp.status = 200
    /\ \E i \in DOMAIN created :
           /\ creator[i] = req.user.id
           /\ created[i].title = Trim(TitleAb)
           /\ created[i].completed
           /\ created[i].status = <<"canceled">>
           /\ created[i].dueDate = Str(<<"d1">>)

-----------------------------------------------------------------------------
(* C10: update idempotence.  When a PUT answered 200 is sent again at      *)
(* once by the same authenticated caller, it is answered 200 again and the *)
(* tasks table stays as the first PUT left it.                             *)

C10_Repeated ==
    /\ pc = "answered" /\ HandlerStep
    /\ req.op = "PUT" /\ resp.status = 200
    /\ req' = req

\* C10: a PUT answered 200 and repeated at once is answered 200 and changes nothing
C10_UpdateIdempotent == [][C10_Repeated => (resp'.status = 200 /\ tasks' = tasks)]_vars

\* a PUT that writes a title, a status and a due date was repeated
C10_Witness ==
    /\ pc = "answered" /\ repeat /\ req.op = "PUT" /\ resp.status = 200
    /\ IsStr(req.body.title) /\ IsStr(req.body.status) /\ IsStr(req.body.dueDate)
    /\ IsBool(req.body.completed)

-----------------------------------------------------------------------------
(* C11 as stated: an authenticated POST answers 400 and inserts no row     *)
(* exactly when the trimmed title has fewer than 2 characters, or the      *)
(* priority it gives is not one of pt/strength/cardio/group, or the status *)
(* it gives is not one of scheduled/completed/canceled/no_show (a field    *)
(* left out is not given and cannot be wrong); otherwise it inserts        *)
(* exactly one task owned by the caller and answers 201.                   *)

C11_Priorities == {<<"pt">>, <<"strength">>, <<"cardio">>, <<"group">>}
C11_Statuses == {<<"scheduled">>, <<"completed">>, <<"canceled">>, <<"no_show">>}

C11_ShortTitle(b) == Len(Trim(StringOr(b.title, <<>>))) < 2

\* the POST step answered 400 and the store is as it was
C11_Refused ==
    /\ resp'.status = 400
    /\ <<users, tasks, taskSeq>>' = <<users, tasks, taskSeq>>

\* the POST step answered 201 and the store gained one row, owned by the caller
C11_Inserted ==
    /\ resp'.status = 201
    /\ users' = users
    /\ Cardinality(DOMAIN tasks' \ DOMAIN tasks) = 1
    /\ \A i \in DOMAIN tasks : i \in DOMAIN tasks' /\ tasks'[i] = tasks[i]
    /\ \A i \in DOMAIN tasks' \ DOMAIN tasks : tasks'[i].owner_id = req'.user.id

C11_AsGiven(x, allowed) == x # Undef /\ x.v \notin allowed

C11_Original ==
    [][(HandlerStep /\ req'.op = "POST" /\ Authenticated(req')) =>
          IF \/ C11_ShortTitle(req'.body)
             \/ C11_AsGiven(req'.body.priority, C11_Priorities)
             \/ C11_AsGiven(req'.body.status, C11_Statuses)
          THEN C11_Refused
          ELSE C11_Inserted]_vars

(* C11 amended: the priority and the status that are tested are the        *)
(* request's values after a missing or falsy one is replaced by its        *)
(* default ("pt", "scheduled") and the result is trimmed; so a padded      *)
(* word of the list is accepted, and stored trimmed.                       *)

C11_Tested(x, dflt, allowed) == Trim(StringOr(x, dflt)) \notin allowed

\* C11: a POST is refused with 400 and no insert exactly when its trimmed title
\* is short or its defaulted, trimmed priority or status is not in the list;
\* otherwise it inserts one row owned by the caller and answers 201
C11_CreateValidation ==
    [][(HandlerStep /\ req'.op = "POST" /\ Authenticated(req')) =>
          IF \/ C11_ShortTitle(req'.body)
             \/ C11_Tested(req'.body.priority, <<"pt">>, C11_Priorities)
             \/ C11_Tested(req'.body.status, <<"scheduled">>, C11_Statuses)
          THEN C11_Refused
          ELSE C11_Inserted]_vars

\* a create with a title of trimmed length 2 and a padded priority was
\* answered 201 and stored for the caller
C11_Witness ==
    /\ pc = "answered" /\ req.op = "POST" /\ resp.status = 201
    /\ Len(Trim(req.body.title.v)) = 2
    /\ req.body.priority = Str(<<" ", "cardio">>)
    /\ tasks[resp.body[1].id].owner_id = req.user.id
    /\ tasks[resp.body[1].id].priority = <<"cardio">>

-----------------------------------------------------------------------------
(* C12: existence is not leaked.  A PUT (whatever its body) or DELETE by   *)
(* an authenticated caller on an id the caller does not own is answered    *)
(* the one 404 "Task not found." and changes nothing, whether the id       *)
(* names no task or another owner's task; and the answer to any PUT or     *)
(* DELETE is the answer the same request gets from the store with every    *)
(* other owner's task taken out, so two stores that differ only in other   *)
(* owners' tasks answer alike.                                             *)

C12_NotFound == Resp(404, "Task not found.", NoToken, <<>>)

C12_Owned(r) == TargetOf(r) \in DOMAIN tasks /\ tasks[TargetOf(r)].owner_id = r.user.id

\* the tasks table with the rows of every other owner taken out
C12_OwnView(owner) == [i \in {j \in DOMAIN tasks : tasks[j].owner_id = owner} |-> tasks[i]]

\* the answer to r from a table t that holds the caller's rows only
C12_Response(r, t) ==
    IF TargetOf(r) \notin DOMAIN t THEN C12_NotFound
    ELSE IF r.op = "DELETE" THEN Resp(200, "", NoToken, <<>>)
    ELSE IF PutFields(t, r.body, TargetOf(r), r.user.id).halt # NoHalt
         THEN PutFields(t, r.body, TargetOf(r), r.user.id).halt
         ELSE Resp(200, "", NoToken, <<>>)

C12_Step ==
    (HandlerStep /\ req'.op \in {"PUT", "DELETE"} /\ Authenticated(req')) =>
        /\ ~C12_Owned(req') => (resp' = C12_NotFound /\ tasks' = tasks)
        /\ resp' = C12_Response(req', C12_OwnView(req'.user.id))

\* C12: an unowned id gets the same 404 whether absent or foreign, and PUT and
\* DELETE answers depend on the caller's own tasks only
C12_NoExistenceLeak == [][C12_Step]_vars

\* a PUT whose body an owner would see rejected with 400 was sent for
\* another owner's existing task and answered 404, while another id that
\* was handed out names no task any more
C12_Witness ==
    /\ pc = "answered" /\ req.op = "PUT" /\ Authenticated(req)
    /\ req.body.priority = Str(<<"bogus">>)
    /\ TargetOf(req) \in DOMAIN tasks
    /\ tasks[TargetOf(req)].owner_id # req.user.id
    /\ resp = C12_NotFound
    /\ \E n \in 1..taskSeq : n \notin DOMAIN tasks

-----------------------------------------------------------------------------
(* C13: non-atomic update.  A PUT on a task of the caller takes the fields *)
(* in the order title, completed, priority, status, dueDate.  It answers   *)
(* 400 for the first field in that order that fails its test; the table    *)
(* then holds the writes of the fields before it and none of the fields    *)
(* after it.                                                               *)

C13_BadTitle(b) == IsStr(b.title) /\ Len(Trim(b.title.v)) < 2
C13_BadPriority(b) == IsStr(b.priority) /\ Trim(b.priority.v) \notin C11_Priorities
C13_BadStatus(b) == IsStr(b.status) /\ Trim(b.status.v) \notin C11_Statuses

\* the row after the title write, if the body asks for one
C13_TitleWritten(row, b) ==
    IF IsStr(b.title) THEN [row EXCEPT !.title = Trim(b.title.v)] ELSE row

\* the row after the completed write, if the body asks for one
C13_CompletedWritten(row, b) ==
    IF IsBool(b.completed) THEN [row EXCEPT !.completed = IF BoolOf(b.completed) THEN 1 ELSE 0]
    ELSE row

\* the row after the priority write, if the body asks for one
C13_PriorityWritten(row, b) ==
    IF IsStr(b.priority) THEN [row EXCEPT !.priority = Trim(b.priority.v)] ELSE row

C13_Step ==
    (/\ HandlerStep /\ req'.op = "PUT" /\ Authenticated(req')
     /\ TargetOf(req') \in DOMAIN tasks
     /\ tasks[TargetOf(req')].owner_id = req'.user.id)
    => LET b == req'.body
           id == TargetOf(req')
           old == tasks[id]
       IN  /\ id \in DOMAIN tasks'
           /\ IF C13_BadTitle(b)
              THEN /\ resp'.status = 400
                   /\ resp'.error = "Title must be at least 2 characters."
                   /\ tasks'[id] = old
              ELSE IF C13_BadPriority(b)
              THEN /\ resp'.status = 400
                   /\ resp'.error = "Invalid priority value."
                   /\ tasks'[id] = C13_CompletedWritten(C13_TitleWritten(old, b), b)
              ELSE IF C13_BadStatus(b)
              THEN /\ resp'.status = 400
                   /\ resp'.error = "Invalid status value."
                   /\ tasks'[id] = C13_PriorityWritten(
                                       C13_CompletedWritten(C13_TitleWritten(old, b), b), b)
              ELSE resp'.status = 200

\* C13: a PUT rejected at a field keeps the writes of the fields before it and
\* makes none of the fields after it
C13_PartialUpdate == [][C13_Step]_vars

\* a PUT rejected for its status left its title, completed flag and priority
\* written and its due date unwritten
C13_Witness ==
    /\ pc = "answered" /\ req.op = "PUT" /\ resp.status = 400
    /\ resp.error = "Invalid status value."
    /\ req.body.title = Str(TitleCd) /\ tasks[TargetOf(req)].title = TitleCd
    /\ req.body.completed = Bool(TRUE) /\ tasks[TargetOf(req)].completed = 1
    /\ req.body.priority = Str(<<" ", "cardio">>)
    /\ tasks[TargetOf(req)].priority = <<"cardio">>
    /\ tasks[TargetOf(req)].status = <<"scheduled">>
    /\ req.body.dueDate = Str(<<" ", "d1">>) /\ tasks[TargetOf(req)].due_date = Null

-----------------------------------------------------------------------------
(* C14: update frame.  A PUT changes no user row, no other task and no     *)
(* owner; on a task of the caller it leaves the title, the priority and    *)
(* the due date as they were when the body does not give them, and the     *)
(* completed flag and the status as they were when the body gives neither  *)
(* (either one may be written for the other by the sync rule); a PUT with  *)
(* an empty body on a task of the caller answers 200 and changes nothing.  *)

C14_Step ==
    (HandlerStep /\ req'.op = "PUT" /\ Authenticated(req')) =>
        LET b == req'.body
            id == TargetOf(req')
        IN  /\ users' = users
            /\ taskSeq' = taskSeq
            /\ DOMAIN tasks' = DOMAIN tasks
            /\ \A i \in DOMAIN tasks : i # id => tasks'[i] = tasks[i]
            /\ (id \in DOMAIN tasks /\ tasks[id].owner_id = req'.user.id) =>
                  /\ tasks'[id].owner_id = tasks[id].owner_id
                  /\ b.title = Undef => tasks'[id].title = tasks[id].title
                  /\ b.priority = Undef => tasks'[id].priority = tasks[id].priority
                  /\ b.dueDate = Undef => tasks'[id].due_date = tasks[id].due_date
                  /\ (b.completed = Undef /\ b.status = Undef) =>
                         /\ tasks'[id].completed = tasks[id].completed
                         /\ tasks'[id].status = tasks[id].status
                  /\ b = NoBody => (resp'.status = 200 /\ tasks' = tasks)

\* C14: every PUT leaves alone what its body does not give, every other task
\* and every user row
C14_UpdateFrame == [][C14_Step]_vars

\* an empty PUT was answered 200 for a task that carries a due date and a
\* completed flag at odds with its status, next to a second task of the caller
C14_Witness ==
    /\ pc = "answered" /\ req.op = "PUT" /\ resp.status = 200
    /\ req.body = NoBody
    /\ tasks[TargetOf(req)].due_date = Str(<<"d1">>)
    /\ tasks[TargetOf(req)].completed = 1
    /\ tasks[TargetOf(req)].status = <<"canceled">>
    /\ \E i \in DOMAIN tasks : i # TargetOf(req) /\ tasks[i].owner_id = req.user.id

-----------------------------------------------------------------------------
(* C15: when no request gives a boolean completed (every request of        *)
(* SpecDerived), every stored task has its completed flag set exactly when *)
(* its status is "completed", in every state: after a create, after an     *)
(* update answered 200, and after a request answered 400 or 404.           *)

\* C15: without a boolean completed in any request, completed = 1 exactly when
\* status = "completed", for every stored task after every request
C15_DerivedSync ==
    \A i \in DOMAIN tasks :
        /\ tasks[i].completed \in {0, 1}
        /\ (tasks[i].completed = 1) <=> (tasks[i].status = <<"completed">>)

\* a PUT with a non-boolean completed was rejected for its status after its
\* title was written, on a completed task, next to a task that is not completed
C15_Witness ==
    /\ pc = "answered" /\ req.op = "PUT" /\ resp.status = 400
    /\ resp.error = "Invalid status value."
    /\ req.body.completed = Str(<<"true">>)
    /\ tasks[TargetOf(req)].title = TitleCd
    /\ tasks[TargetOf(req)].completed = 1
    /\ \E i \in DOMAIN tasks : tasks[i].completed = 0 /\ tasks[i].status = <<"canceled">>

-----------------------------------------------------------------------------
(* C16: stored tasks are well formed.  In every reachable state every      *)
(* stored task has a title of at least 2 characters without leading or     *)
(* trailing whitespace, a priority of the list, a status of the list, and  *)
(* as owner_id the id of the user it was created for; and no step changes  *)
(* the owner_id of a task.                                                 *)

C16_WellFormed(row) ==
    /\ Len(row.title) >= 2
    /\ Head(row.title) # " " /\ row.title[Len(row.title)] # " "
    /\ row.priority \in C11_Priorities
    /\ row.status \in C11_Statuses

C16_Stored ==
    \A i \in DOMAIN tasks :
        /\ C16_WellFormed(tasks[i])
        /\ i \in DOMAIN creator /\ tasks[i].owner_id = creator[i]
        /\ tasks[i].owner_id \in 1..Len(users)

C16_OwnerKept ==
    \A i \in DOMAIN tasks \cap DOMAIN tasks' : tasks'[i].owner_id = tasks[i].owner_id

\* C16: every stored task is well formed and owned by its creator, always
C16_StoredTasksWellFormed == []C16_Stored /\ [][C16_OwnerKept]_vars

\* tasks of two owners, one created from padded fields and one retitled by
\* a PUT, right after a PUT with a priority outside the list was rejected
C16_Witness ==
    /\ pc = "answered" /\ req.op = "PUT" /\ resp.status = 400
    /\ resp.error = "Invalid priority value."
    /\ \E i, j \in DOMAIN tasks :
           /\ tasks[i].owner_id # tasks[j].owner_id
           /\ tasks[i].title = TitleCd
           /\ tasks[j].title = Trim(TitleAb) /\ tasks[j].priority = <<"cardio">>
           /\ tasks[j].status = <<"canceled">>

====
